---- MODULE Spec2Model ----
(***************************************************************************)
(* Model of simplejson.go: a wrapper (Json) over one decoded JSON value.   *)
(*                                                                         *)
(* Go maps are reference objects, so they live in a heap (a sequence of    *)
(* map objects, an address is an index).  A Json struct is itself handled  *)
(* through a pointer, so the structs live in the sequence js (a pointer is *)
(* an index, 0 is the nil pointer).  Slices are never written by any       *)
(* operation of the package, so an array is carried as the sequence of its *)
(* elements (which may hold map addresses).                                *)
(***************************************************************************)
EXTENDS Integers, Sequences, FiniteSets, TLC

MaxSteps == 2          \* number of calls made on one document
MaxPath  == 2          \* longest branch handed to Get / CheckGet / SetPath

KeySeq == <<"a", "b">>
Keys   == {KeySeq[i] : i \in 1..Len(KeySeq)}

(***************************************************************************)
(* interface{} values.  One record shape for every kind:                   *)
(*   k kind, n number payload (numbers are kept in halves so that 3.5 is   *)
(*   representable: n = 7; a bool is 0/1; a map is its heap address),      *)
(*   s string payload, e element sequence.                                 *)
(***************************************************************************)
V(k, n, s, e) == [k |-> k, n |-> n, s |-> s, e |-> e]
Nil        == V("nil", 0, "", <<>>)
None       == V("none", 0, "", <<>>)      \* "key not present" inside a map
BoolV(b)   == V("bool", IF b THEN 1 ELSE 0, "", <<>>)
NumV(h)    == V("num", h, "", <<>>)
StrV(s)    == V("str", 0, s, <<>>)
MapV(a)    == V("map", a, "", <<>>)
ArrV(e)    == V("arr", 0, "", e)
NewMapArg  == V("newmap", 0, "", <<>>)    \* caller passes a freshly made map

EmptyMap == [key \in Keys |-> None]

NilPtr == 0

\* path steps: a string key, an int index, or a value of another type
KeyStep(s) == [t |-> "string", s |-> s, i |-> 0]
IdxStep(i) == [t |-> "int", s |-> "", i |-> i]
OtherStep  == [t |-> "other", s |-> "", i |-> 0]

VARIABLES js, heap, org, last, pre, steps
vars == <<js, heap, org, last, pre, steps>>

(***************************************************************************)
(* Type assertions                                                         *)
(***************************************************************************)
\* CheckMap: the address of the map held, or an error
CheckMap(d) == [ok |-> d.k = "map", m |-> IF d.k = "map" THEN d.n ELSE 0]

\* CheckArray: the slice held, or an error
CheckArray(d) == [ok |-> d.k = "arr", a |-> IF d.k = "arr" THEN d.e ELSE <<>>]

CheckBool(d) == [ok |-> d.k = "bool", v |-> IF d.k = "bool" THEN d.n = 1 ELSE FALSE]

CheckString(d) == [ok |-> d.k = "str", v |-> IF d.k = "str" THEN d.s ELSE ""]

(***************************************************************************)
(* Navigation.  A hop yields st = "panic" when the Go runtime aborts it,   *)
(* otherwise ok and the value the new Json struct wraps.                   *)
(***************************************************************************)
Hop(st, ok, val) == [st |-> st, ok |-> ok, val |-> val]

getKeyAlwaysFound(hp, d, key) ==
    LET c == CheckMap(d) IN
    IF c.ok THEN Hop("ok", TRUE, IF hp[c.m][key] = None THEN Nil ELSE hp[c.m][key])
    ELSE Hop("ok", FALSE, Nil)

getKey(hp, d, key) ==
    LET c == CheckMap(d) IN
    IF c.ok /\ hp[c.m][key] # None
        THEN Hop("ok", TRUE, hp[c.m][key])
        ELSE Hop("ok", FALSE, Nil)

\* a[index] with index < 0 is a run-time panic (index out of range)
getIndex(d, index) ==
    LET c == CheckArray(d) IN
    IF c.ok /\ Len(c.a) > index
        THEN IF index < 0 THEN Hop("panic", FALSE, Nil)
                          ELSE Hop("ok", TRUE, c.a[index + 1])
        ELSE Hop("ok", FALSE, Nil)

\* the loop of CheckGet over the values wrapped at each hop
RECURSIVE Walk(_, _, _)
Walk(hp, d, branch) ==
    IF branch = <<>> THEN Hop("ok", TRUE, d)
    ELSE LET p == Head(branch)
             r == CASE p.t = "string" -> getKey(hp, d, p.s)
                    [] p.t = "int"    -> getIndex(d, p.i)
                    [] OTHER          -> Hop("ok", FALSE, Nil)
         IN IF r.st = "panic" THEN r
            ELSE IF ~r.ok THEN Hop("ok", FALSE, Nil)
            ELSE Walk(hp, r.val, Tail(branch))

(***************************************************************************)
(* CheckGet and Get on the Json structs.  Result: st, the structs after    *)
(* the call (a hop allocates a struct; those of the inner hops are dropped *)
(* at once and are not kept), the pointer returned and the flag.           *)
(***************************************************************************)
Ret(st, jsq, ret, ok) == [st |-> st, js |-> jsq, ret |-> ret, ok |-> ok]

CheckGet(jsq, hp, j, branch) ==
    LET w == Walk(hp, jsq[j], branch) IN
    IF w.st = "panic" THEN Ret("panic", jsq, NilPtr, FALSE)
    ELSE IF ~w.ok THEN Ret("ok", jsq, NilPtr, FALSE)
    ELSE IF branch = <<>> THEN Ret("ok", jsq, j, TRUE)
    ELSE Ret("ok", Append(jsq, w.val), Len(jsq) + 1, TRUE)

GetNilOnFailure(jsq, hp, j, branch) ==
    LET r == CheckGet(jsq, hp, j, branch) IN
    IF r.st = "panic" THEN r
    ELSE IF r.ok THEN Ret("ok", r.js, r.ret, TRUE)
    ELSE Ret("ok", r.js, NilPtr, TRUE)

GetReceiverOnFailure(jsq, hp, j, branch) ==
    LET r == CheckGet(jsq, hp, j, branch) IN
    IF r.st = "panic" THEN r
    ELSE IF r.ok THEN Ret("ok", r.js, r.ret, TRUE)
    ELSE Ret("ok", r.js, j, TRUE)

Get(jsq, hp, j, branch) ==
    LET r == CheckGet(jsq, hp, j, branch) IN
    IF r.st = "panic" THEN r
    ELSE IF r.ok THEN Ret("ok", r.js, r.ret, TRUE)
    ELSE Ret("ok", Append(r.js, Nil), Len(r.js) + 1, TRUE)

(***************************************************************************)
(* Mutation.  Result: the structs and the heap after the call.             *)
(***************************************************************************)
Mem(jsq, hp) == [js |-> jsq, heap |-> hp]

SetCopyOnWrite(jsq, hp, j, key, val) ==
    LET c == CheckMap(jsq[j]) IN
    IF ~c.ok THEN Mem(jsq, hp)
    ELSE LET hp1 == Append(hp, [hp[c.m] EXCEPT ![key] = val])
         IN Mem([jsq EXCEPT ![j] = MapV(Len(hp1))], hp1)

SetCoercesRoot(jsq, hp, j, key, val) ==
    LET c == CheckMap(jsq[j]) IN
    IF ~c.ok
        THEN LET hp1 == Append(hp, [EmptyMap EXCEPT ![key] = val])
             IN Mem([jsq EXCEPT ![j] = MapV(Len(hp1))], hp1)
        ELSE Mem(jsq, [hp EXCEPT ![c.m][key] = val])

Set(jsq, hp, j, key, val) ==
    LET c == CheckMap(jsq[j]) IN
    IF ~c.ok THEN Mem(jsq, hp)
    ELSE Mem(jsq, [hp EXCEPT ![c.m][key] = val])

Del(jsq, hp, j, key) ==
    LET c == CheckMap(jsq[j]) IN
    IF ~c.ok THEN Mem(jsq, hp)
    ELSE Mem(jsq, [hp EXCEPT ![c.m][key] = None])

\* the for loop of SetPath and the final write; curr is a map address,
\* i the (1-based) position in branch
RECURSIVE SetPathLoopKeepsWrongShape(_, _, _, _, _)
SetPathLoopKeepsWrongShape(hp, curr, branch, i, val) ==
    IF i >= Len(branch) THEN [hp EXCEPT ![curr][branch[Len(branch)]] = val]
    ELSE LET b == branch[i] IN
         IF hp[curr][b] = None
            THEN LET hp1 == Append(hp, EmptyMap)
                     n   == Len(hp1)
                 IN SetPathLoopKeepsWrongShape([hp1 EXCEPT ![curr][b] = MapV(n)], n, branch, i + 1, val)
         ELSE IF hp[curr][b].k # "map"
            THEN LET hp1 == Append(hp, EmptyMap)
                     n   == Len(hp1)
                 IN SetPathLoopKeepsWrongShape(hp1, n, branch, i + 1, val)
         ELSE SetPathLoopKeepsWrongShape(hp, hp[curr][b].n, branch, i + 1, val)

RECURSIVE SetPathLoopClearsSiblings(_, _, _, _, _)
SetPathLoopClearsSiblings(hp, curr, branch, i, val) ==
    IF i >= Len(branch)
        THEN [hp EXCEPT ![curr] = [EmptyMap EXCEPT ![branch[Len(branch)]] = val]]
    ELSE LET b == branch[i] IN
         IF hp[curr][b] = None \/ hp[curr][b].k # "map"
            THEN LET hp1 == Append(hp, EmptyMap)
                     n   == Len(hp1)
                 IN SetPathLoopClearsSiblings([hp1 EXCEPT ![curr][b] = MapV(n)], n, branch, i + 1, val)
         ELSE SetPathLoopClearsSiblings(hp, hp[curr][b].n, branch, i + 1, val)

RECURSIVE SetPathLoop(_, _, _, _, _)
SetPathLoop(hp, curr, branch, i, val) ==
    IF i >= Len(branch) THEN [hp EXCEPT ![curr][branch[Len(branch)]] = val]
    ELSE LET b == branch[i] IN
         IF hp[curr][b] = None
            THEN LET hp1 == Append(hp, EmptyMap)
                     n   == Len(hp1)
                 IN SetPathLoop([hp1 EXCEPT ![curr][b] = MapV(n)], n, branch, i + 1, val)
         ELSE IF hp[curr][b].k # "map"
            THEN LET hp1 == Append(hp, EmptyMap)
                     n   == Len(hp1)
                 IN SetPathLoop([hp1 EXCEPT ![curr][b] = MapV(n)], n, branch, i + 1, val)
         ELSE SetPathLoop(hp, hp[curr][b].n, branch, i + 1, val)

SetPath(jsq, hp, j, branch, val) ==
    IF Len(branch) = 0 THEN Mem([jsq EXCEPT ![j] = val], hp)
    ELSE LET isMap == jsq[j].k = "map"
             hp1   == IF isMap THEN hp ELSE Append(hp, EmptyMap)
             d1    == IF isMap THEN jsq[j] ELSE MapV(Len(hp1))
         IN Mem([jsq EXCEPT ![j] = d1], SetPathLoop(hp1, d1.n, branch, 1, val))

(***************************************************************************)
(* Accessors with an optional default.  args is the variadic argument      *)
(* list; the result is st and the value returned (rv).  Returned values    *)
(* carry the Go type of the result as their kind.                          *)
(***************************************************************************)
Acc(st, rv) == [st |-> st, rv |-> rv]
Chk(ok, v)  == [ok |-> ok, v |-> v]

IntV(n)       == V("int", n, "", <<>>)
Int64V(n)     == V("int64", n, "", <<>>)
Uint64V(n)    == V("uint64", n, "", <<>>)
Float64V(h)   == V("float64", h, "", <<>>)
NilSlice      == V("nilslice", 0, "", <<>>)
NilMap        == V("nilmap", 0, "", <<>>)
NilJsonSlice  == V("niljsonslice", 0, "", <<>>)
NilJsonMap    == V("niljsonmap", 0, "", <<>>)
JsonSliceV(e) == V("jsonslice", 0, "", e)    \* []*Json, by the value each wraps
JsonMapV(e)   == V("jsonmap", 0, "", e)      \* map[string]*Json, in KeySeq order
CallerMap     == V("callermap", 0, "", <<>>) \* a map the caller owns

\* CheckJsonMap: a copy of the map, each value wrapped
CheckJsonMap(hp, d) ==
    LET c == CheckMap(d) IN
    IF ~c.ok THEN Chk(FALSE, NilJsonMap)
    ELSE Chk(TRUE, JsonMapV([i \in 1..Len(KeySeq) |-> hp[c.m][KeySeq[i]]]))

\* CheckJsonArray: a copy of the slice, each value wrapped
CheckJsonArray(d) ==
    LET c == CheckArray(d) IN
    IF ~c.ok THEN Chk(FALSE, NilJsonSlice)
    ELSE Chk(TRUE, JsonSliceV([i \in 1..Len(c.a) |-> c.a[i]]))

\* numeric assertions: a number converts to an integer type when it has no
\* fractional part (and is not negative, for the unsigned type)
CheckInt(d) ==
    IF d.k = "num" /\ d.n % 2 = 0 THEN Chk(TRUE, IntV(d.n \div 2)) ELSE Chk(FALSE, IntV(0))

CheckInt64(d) ==
    IF d.k = "num" /\ d.n % 2 = 0 THEN Chk(TRUE, Int64V(d.n \div 2)) ELSE Chk(FALSE, Int64V(0))

CheckUint64(d) ==
    IF d.k = "num" /\ d.n % 2 = 0 /\ d.n >= 0
        THEN Chk(TRUE, Uint64V(d.n \div 2)) ELSE Chk(FALSE, Uint64V(0))

CheckFloat64(d) ==
    IF d.k = "num" THEN Chk(TRUE, Float64V(d.n)) ELSE Chk(FALSE, Float64V(0))

JsonArray(d, args) ==
    IF Len(args) > 1 THEN Acc("panic", None)
    ELSE LET def == IF Len(args) = 1 THEN args[1] ELSE NilJsonSlice
             c   == CheckJsonArray(d)
         IN IF c.ok THEN Acc("ok", c.v) ELSE Acc("ok", def)

JsonMap(hp, d, args) ==
    IF Len(args) > 1 THEN Acc("panic", None)
    ELSE LET def == IF Len(args) = 1 THEN args[1] ELSE NilJsonMap
             c   == CheckJsonMap(hp, d)
         IN IF c.ok THEN Acc("ok", c.v) ELSE Acc("ok", def)

Array(d, args) ==
    IF Len(args) > 1 THEN Acc("panic", None)
    ELSE LET def == IF Len(args) = 1 THEN args[1] ELSE NilSlice
             c   == CheckArray(d)
         IN IF c.ok THEN Acc("ok", ArrV(c.a)) ELSE Acc("ok", def)

Map(d, args) ==
    IF Len(args) > 1 THEN Acc("panic", None)
    ELSE LET def == IF Len(args) = 1 THEN args[1] ELSE NilMap
             c   == CheckMap(d)
         IN IF c.ok THEN Acc("ok", MapV(c.m)) ELSE Acc("ok", def)

StringIgnoresDefault(d, args) ==
    IF Len(args) > 1 THEN Acc("panic", None)
    ELSE LET c == CheckString(d)
         IN IF c.ok THEN Acc("ok", StrV(c.v)) ELSE Acc("ok", StrV(""))

String(d, args) ==
    IF Len(args) > 1 THEN Acc("panic", None)
    ELSE LET def == IF Len(args) = 1 THEN args[1] ELSE StrV("")
             c   == CheckString(d)
         IN IF c.ok THEN Acc("ok", StrV(c.v)) ELSE Acc("ok", def)

Int_(d, args) ==
    IF Len(args) > 1 THEN Acc("panic", None)
    ELSE LET def == IF Len(args) = 1 THEN args[1] ELSE IntV(0)
             c   == CheckInt(d)
         IN IF c.ok THEN Acc("ok", c.v) ELSE Acc("ok", def)

Float64(d, args) ==
    IF Len(args) > 1 THEN Acc("panic", None)
    ELSE LET def == IF Len(args) = 1 THEN args[1] ELSE Float64V(0)
             c   == CheckFloat64(d)
         IN IF c.ok THEN Acc("ok", c.v) ELSE Acc("ok", def)

BoolTakesFirstDefault(d, args) ==
    LET def == IF Len(args) >= 1 THEN args[1] ELSE BoolV(FALSE)
        c   == CheckBool(d)
    IN IF c.ok THEN Acc("ok", BoolV(c.v)) ELSE Acc("ok", def)

Bool(d, args) ==
    IF Len(args) > 1 THEN Acc("panic", None)
    ELSE LET def == IF Len(args) = 1 THEN args[1] ELSE BoolV(FALSE)
             c   == CheckBool(d)
         IN IF c.ok THEN Acc("ok", BoolV(c.v)) ELSE Acc("ok", def)

Int64(d, args) ==
    IF Len(args) > 1 THEN Acc("panic", None)
    ELSE LET def == IF Len(args) = 1 THEN args[1] ELSE Int64V(0)
             c   == CheckInt64(d)
         IN IF c.ok THEN Acc("ok", c.v) ELSE Acc("ok", def)

Uint64(d, args) ==
    IF Len(args) > 1 THEN Acc("panic", None)
    ELSE LET def == IF Len(args) = 1 THEN args[1] ELSE Uint64V(0)
             c   == CheckUint64(d)
         IN IF c.ok THEN Acc("ok", c.v) ELSE Acc("ok", def)

(***************************************************************************)
(* Inputs                                                                  *)
(***************************************************************************)
Idx   == {-1, 0, 1}
Steps == {KeyStep(key) : key \in Keys} \cup {IdxStep(i) : i \in Idx} \cup {OtherStep}

SeqsUpTo(S, n) == UNION {[1..m -> S] : m \in 0..n}

Branches    == SeqsUpTo(Steps, MaxPath)     \* Get, CheckGet
KeyBranches == SeqsUpTo(Keys, MaxPath)      \* SetPath

\* values handed to Set and SetPath: JSON values built for the call, so no
\* map is shared between two places of a document
Vals == {Nil, StrV("y"), NewMapArg}

\* the caller builds the value first: a fresh map is allocated before the call
ArgHeap(hp, vc) == IF vc = NewMapArg THEN Append(hp, EmptyMap) ELSE hp
ArgVal(hp, vc)  == IF vc = NewMapArg THEN MapV(Len(hp) + 1) ELSE vc

\* a []string branch as path steps
KeySteps(branch) == [i \in 1..Len(branch) |-> KeyStep(branch[i])]

ArgLists(def) == {<<>>, <<def>>, <<def, def>>}

(***************************************************************************)
(* Documents: New() and the decoded trees NewJson hands back               *)
(*   {"a": {"b": [{"a": "x"}]}, "b": null}     {"a": [3], "b": "x"}        *)
(*   [true]     null     3.5     -1                                        *)
(***************************************************************************)
Obj(va, vb) == [key \in Keys |-> IF key = "a" THEN va ELSE vb]

New == [data |-> MapV(1), heap |-> <<EmptyMap>>]

NewJson ==
    { [data |-> MapV(1),
       heap |-> << Obj(MapV(2), Nil),
                   Obj(None, ArrV(<<MapV(3)>>)),
                   Obj(StrV("x"), None) >>],
      [data |-> MapV(1), heap |-> << Obj(ArrV(<<NumV(6)>>), StrV("x")) >>],
      [data |-> ArrV(<<BoolV(TRUE)>>), heap |-> <<>>] }
    \cup { [data |-> d, heap |-> <<>>] : d \in {Nil, NumV(7), NumV(-2)} }

(***************************************************************************)
(* State                                                                   *)
(*   js    the Json structs, js[p] the data field of the struct at p;      *)
(*         js[1] is the document                                           *)
(*   heap  the map objects                                                 *)
(*   org   for each struct, the call that returned it (history)            *)
(*   last  the last call, its arguments and what it returned (history)     *)
(*   pre   js and heap when the last call was entered (history)            *)
(*   steps number of calls made                                            *)
(***************************************************************************)
Call(op, j, branch, key, val, args, st, found, ret, rv) ==
    [op |-> op, j |-> j, branch |-> branch, key |-> key, val |-> val, args |-> args,
     st |-> st, found |-> found, ret |-> ret, rv |-> rv]

NewCall == Call("new", NilPtr, <<>>, "", None, <<>>, "ok", TRUE, 1, None)

Origin(par, path, found) == [par |-> par, path |-> path, found |-> found]

Init ==
    /\ \E doc \in NewJson \cup {New} :
         /\ js = <<doc.data>>
         /\ heap = doc.heap
         /\ pre = [js |-> <<doc.data>>, heap |-> doc.heap]
    /\ org = <<Origin(NilPtr, <<>>, TRUE)>>
    /\ last = NewCall
    /\ steps = 0

\* last and pre describe one call.  Between two calls the caller drops
\* them (Return), so that what a call does depends on js and heap alone.
\* A panic ends the program: nothing follows it.
Idle  == Call("idle", NilPtr, <<>>, "", None, <<>>, "ok", TRUE, NilPtr, None)
NoPre == [js |-> <<>>, heap |-> <<>>]

Return ==
    /\ last.op # "idle"
    /\ last.st = "ok"
    /\ steps < MaxSteps
    /\ last' = Idle
    /\ pre' = NoPre
    /\ UNCHANGED <<js, heap, org, steps>>

CanCall == last.op = "idle" /\ steps < MaxSteps

Navigated(op, j, branch, r) ==
    /\ js' = r.js
    /\ org' = IF Len(r.js) > Len(js)
                 THEN IF Walk(heap, js[j], branch).ok
                         THEN Append(org, Origin(j, branch, TRUE))
                         ELSE Append(org, Origin(NilPtr, <<>>, FALSE))
                 ELSE org
    /\ last' = Call(op, j, branch, "", None, <<>>, r.st, r.ok, r.ret, None)
    /\ pre' = [js |-> js, heap |-> heap]
    /\ steps' = steps + 1
    /\ UNCHANGED heap

CallGet ==
    /\ CanCall
    /\ \E j \in 1..Len(js), branch \in Branches :
         Navigated("Get", j, branch, Get(js, heap, j, branch))

CallCheckGet ==
    /\ CanCall
    /\ \E j \in 1..Len(js), branch \in Branches :
         Navigated("CheckGet", j, branch, CheckGet(js, heap, j, branch))

Mutated(op, j, branch, key, val, hp0, r) ==
    /\ js' = r.js
    /\ heap' = r.heap
    /\ last' = Call(op, j, branch, key, val, <<>>, "ok", TRUE, NilPtr, None)
    /\ pre' = [js |-> js, heap |-> hp0]
    /\ steps' = steps + 1
    /\ UNCHANGED org

CallSet ==
    /\ CanCall
    /\ \E j \in 1..Len(js), key \in Keys, vc \in Vals :
         LET hp0 == ArgHeap(heap, vc)
             val == ArgVal(heap, vc)
         IN Mutated("Set", j, <<>>, key, val, hp0, Set(js, hp0, j, key, val))

CallSetPath ==
    /\ CanCall
    /\ \E j \in 1..Len(js), branch \in KeyBranches, vc \in Vals :
         LET hp0 == ArgHeap(heap, vc)
             val == ArgVal(heap, vc)
         IN Mutated("SetPath", j, KeySteps(branch), "", val, hp0,
                    SetPath(js, hp0, j, branch, val))

CallDel ==
    /\ CanCall
    /\ \E j \in 1..Len(js), key \in Keys :
         Mutated("Del", j, <<>>, key, None, heap, Del(js, heap, j, key))

Accessed(op, j, args, r) ==
    /\ last' = Call(op, j, <<>>, "", None, args, r.st, TRUE, NilPtr, r.rv)
    /\ pre' = [js |-> js, heap |-> heap]
    /\ steps' = steps + 1
    /\ UNCHANGED <<js, heap, org>>

CallJsonArray ==
    /\ CanCall
    /\ \E j \in 1..Len(js), args \in ArgLists(JsonSliceV(<<StrV("dflt")>>)) :
         Accessed("JsonArray", j, args, JsonArray(js[j], args))

CallJsonMap ==
    /\ CanCall
    /\ \E j \in 1..Len(js), args \in ArgLists(JsonMapV(<<StrV("dflt"), None>>)) :
         Accessed("JsonMap", j, args, JsonMap(heap, js[j], args))

CallArray ==
    /\ CanCall
    /\ \E j \in 1..Len(js), args \in ArgLists(ArrV(<<StrV("dflt")>>)) :
         Accessed("Array", j, args, Array(js[j], args))

CallMap ==
    /\ CanCall
    /\ \E j \in 1..Len(js), args \in ArgLists(CallerMap) :
         Accessed("Map", j, args, Map(js[j], args))

CallString ==
    /\ CanCall
    /\ \E j \in 1..Len(js), args \in ArgLists(StrV("fallback")) :
         Accessed("String", j, args, String(js[j], args))

CallInt ==
    /\ CanCall
    /\ \E j \in 1..Len(js), args \in ArgLists(IntV(5150)) :
         Accessed("Int", j, args, Int_(js[j], args))

CallFloat64 ==
    /\ CanCall
    /\ \E j \in 1..Len(js), args \in ArgLists(Float64V(3)) :
         Accessed("Float64", j, args, Float64(js[j], args))

CallBool ==
    /\ CanCall
    /\ \E j \in 1..Len(js), args \in ArgLists(BoolV(TRUE)) :
         Accessed("Bool", j, args, Bool(js[j], args))

CallInt64 ==
    /\ CanCall
    /\ \E j \in 1..Len(js), args \in ArgLists(Int64V(5150)) :
         Accessed("Int64", j, args, Int64(js[j], args))

CallUint64 ==
    /\ CanCall
    /\ \E j \in 1..Len(js), args \in ArgLists(Uint64V(5150)) :
         Accessed("Uint64", j, args, Uint64(js[j], args))

Next ==
    \/ Return
    \/ CallGet
    \/ CallCheckGet
    \/ CallSet
    \/ CallSetPath
    \/ CallDel
    \/ CallJsonArray
    \/ CallJsonMap
    \/ CallArray
    \/ CallMap
    \/ CallString
    \/ CallInt
    \/ CallFloat64
    \/ CallBool
    \/ CallInt64
    \/ CallUint64

Spec == Init /\ [][Next]_vars

(***************************************************************************)
(* Helpers of the properties                                               *)
(***************************************************************************)
\* the JSON tree a value stands for: maps expanded, in KeySeq order
RECURSIVE Tree(_, _)
Tree(hp, v) ==
    IF v.k = "map"
        THEN V("obj", 0, "", [i \in 1..Len(KeySeq) |-> Tree(hp, hp[v.n][KeySeq[i]])])
    ELSE IF v.k = "arr"
        THEN ArrV([i \in 1..Len(v.e) |-> Tree(hp, v.e[i])])
    ELSE v

\* one step matches: a key present in an object, or an index below the
\* length of an array
StepMatches(hp, d, p) ==
    \/ p.t = "string" /\ d.k = "map" /\ hp[d.n][p.s] # None
    \/ p.t = "int" /\ d.k = "arr" /\ p.i >= 0 /\ p.i < Len(d.e)

StepValue(hp, d, p) == IF p.t = "string" THEN hp[d.n][p.s] ELSE d.e[p.i + 1]

\* the sub-value a path locates, when every step matches
RECURSIVE Located(_, _, _)
Located(hp, d, branch) ==
    IF branch = <<>> THEN [ok |-> TRUE, val |-> d]
    ELSE IF StepMatches(hp, d, Head(branch))
        THEN Located(hp, StepValue(hp, d, Head(branch)), Tail(branch))
        ELSE [ok |-> FALSE, val |-> Nil]

Prefix(branch, n) == [i \in 1..n |-> branch[i]]

NoNegativeIndex(branch) ==
    \A i \in 1..Len(branch) : branch[i].t = "int" => branch[i].i >= 0

SameStructs == \A p \in 1..Len(pre.js) : js[p] = pre.js[p]

Untouched == heap = pre.heap /\ Len(js) = Len(pre.js) /\ SameStructs

IsAccessor(op) ==
    op \in {"String", "Int", "Int64", "Uint64", "Float64", "Bool",
            "Array", "Map", "JsonArray", "JsonMap"}

IsMutation(op) == op \in {"Set", "SetPath", "Del"}

\* the struct at p is the one a Get that did not resolve handed back
IsSentinel(p) == p \in 1..Len(org) /\ ~org[p].found

\* the struct at p was handed back by a Get (or CheckGet) that resolved
\* over a non-empty path
IsHandle(p) == p \in 1..Len(org) /\ org[p].found /\ org[p].par # NilPtr

(***************************************************************************)
(* C1: CheckGet, for a path of string keys and non-negative int indices    *)
(* (and steps of other types), reports found exactly when every step       *)
(* matches, and then returns a struct wrapping the located sub-value (a    *)
(* JSON null counts as found); otherwise it reports not found; the         *)
(* document is unchanged either way.                                       *)
(***************************************************************************)
C1_CheckGetResolves ==
    (last.op = "CheckGet" /\ NoNegativeIndex(last.branch)) =>
        LET loc == Located(pre.heap, pre.js[last.j], last.branch) IN
        /\ last.st = "ok"
        /\ last.found = loc.ok
        /\ loc.ok => (last.ret \in 1..Len(js) /\ js[last.ret] = loc.val)
        /\ heap = pre.heap
        /\ SameStructs

\* a path of two steps resolved to a JSON null, or failed at its second step
C1_Witness ==
    /\ last.op = "CheckGet"
    /\ Len(last.branch) = 2
    /\ NoNegativeIndex(last.branch)
    /\ StepMatches(pre.heap, pre.js[last.j], last.branch[1])
    /\ ~last.found

C1_WitnessFoundNull ==
    /\ last.op = "CheckGet"
    /\ Len(last.branch) = 1
    /\ last.found
    /\ js[last.ret] = Nil

(***************************************************************************)
(* C2: a negative int index never aborts Get or CheckGet: the walk ends    *)
(* as not found.                                                           *)
(***************************************************************************)
C2_NegativeIndexNotFound ==
    (/\ last.op \in {"Get", "CheckGet"}
     /\ \E i \in 1..Len(last.branch) :
            last.branch[i].t = "int" /\ last.branch[i].i < 0) =>
        /\ last.st = "ok"
        /\ last.op = "CheckGet" => ~last.found
        /\ last.op = "Get" => (last.ret \in 1..Len(js) /\ js[last.ret] = Nil)

(***************************************************************************)
(* C3: Get is CheckGet with the flag dropped: when CheckGet finds the      *)
(* path, Get returns a struct wrapping the same sub-value; when it does    *)
(* not, Get returns a valid (non-nil) struct holding the Absent value.  A  *)
(* Get on the struct an unresolved Get returned never aborts and yields an *)
(* Absent struct again.                                                    *)
(***************************************************************************)
C3_GetIsCheckGet ==
    /\ (last.op = "Get" /\ last.st = "ok") =>
          LET c == CheckGet(pre.js, pre.heap, last.j, last.branch) IN
          /\ last.ret # NilPtr
          /\ last.ret \in 1..Len(js)
          /\ IF c.ok THEN js[last.ret] = c.js[c.ret] ELSE js[last.ret] = Nil
    /\ (last.op = "Get" /\ IsSentinel(last.j) /\ pre.js[last.j] = Nil) =>
          /\ last.st = "ok"
          /\ last.ret # NilPtr
          /\ last.ret \in 1..Len(js)
          /\ js[last.ret] = Nil

\* a Get with a non-empty path on the struct an unresolved Get returned
C3_Witness ==
    /\ last.op = "Get"
    /\ IsSentinel(last.j)
    /\ pre.js[last.j] = Nil
    /\ Len(last.branch) > 0
    /\ last.ret # last.j
    /\ js[last.ret] = Nil

(***************************************************************************)
(* C4: after SetPath(path, v), CheckGet(path...) reports found and wraps   *)
(* v; for a non-empty path every proper prefix of the path (the root       *)
(* included) resolves to an object; for the empty path the whole wrapped   *)
(* value is v, whatever the root was.                                      *)
(***************************************************************************)
C4_SetPathThenCheckGet ==
    last.op = "SetPath" =>
        LET c == CheckGet(js, heap, last.j, last.branch) IN
        /\ c.st = "ok"
        /\ c.ok
        /\ c.js[c.ret] = last.val
        /\ \A n \in 0..(Len(last.branch) - 1) :
              LET w == Walk(heap, js[last.j], Prefix(last.branch, n)) IN
              w.ok /\ w.val.k = "map"
        /\ Len(last.branch) = 0 => js[last.j] = last.val

\* a two-key path was set where the first key held an array
C4_Witness ==
    /\ last.op = "SetPath"
    /\ Len(last.branch) = 2
    /\ pre.js[last.j].k = "map"
    /\ pre.heap[pre.js[last.j].n][last.branch[1].s].k = "arr"
    /\ last.val = StrV("y")

(***************************************************************************)
(* C5: Set and Del on a struct whose value is not an object change nothing *)
(* and signal nothing; Del of a key the object lacks changes nothing; on   *)
(* an object Set writes exactly that key and Del removes exactly that key, *)
(* every other key keeping its value.                                      *)
(***************************************************************************)
C5_SetDelFrame ==
    (last.op \in {"Set", "Del"}) =>
        LET d == pre.js[last.j] IN
        /\ last.st = "ok"
        /\ Len(js) = Len(pre.js) /\ SameStructs
        /\ Len(heap) = Len(pre.heap)
        /\ IF d.k # "map" THEN heap = pre.heap
           ELSE /\ \A a \in 1..Len(heap) : a # d.n => heap[a] = pre.heap[a]
                /\ \A key \in Keys : key # last.key => heap[d.n][key] = pre.heap[d.n][key]
                /\ last.op = "Set" => heap[d.n][last.key] = last.val
                /\ last.op = "Del" => heap[d.n][last.key] = None
                /\ (last.op = "Del" /\ pre.heap[d.n][last.key] = None) => heap = pre.heap

\* Set was called on a document whose root is an array
C5_Witness ==
    /\ last.op = "Set"
    /\ last.j = 1
    /\ pre.js[1].k = "arr"
    /\ js[1] = pre.js[1]

(***************************************************************************)
(* C6: SetPath with a non-empty path changes only the nodes on the path:   *)
(* a node on the path that was an object stays that object and keeps every *)
(* key other than the next step; a node that was missing or not an object  *)
(* is replaced by a fresh object whose only key is the next step.          *)
(***************************************************************************)
OnPath(a) ==
    \E n \in 0..(Len(last.branch) - 1) :
        LET w == Walk(pre.heap, pre.js[last.j], Prefix(last.branch, n)) IN
        w.ok /\ w.val = MapV(a)

C6_SetPathFrame ==
    (last.op = "SetPath" /\ Len(last.branch) > 0) =>
        /\ \A n \in 0..(Len(last.branch) - 1) :
              LET was == Walk(pre.heap, pre.js[last.j], Prefix(last.branch, n))
                  now == Walk(heap, js[last.j], Prefix(last.branch, n))
                  nxt == last.branch[n + 1].s
              IN /\ now.ok /\ now.val.k = "map"
                 /\ IF was.ok /\ was.val.k = "map"
                       THEN /\ now.val = was.val
                            /\ \A key \in Keys \ {nxt} :
                                  /\ heap[now.val.n][key] = pre.heap[was.val.n][key]
                                  /\ Tree(heap, heap[now.val.n][key])
                                       = Tree(pre.heap, pre.heap[was.val.n][key])
                       ELSE /\ now.val.n > Len(pre.heap)
                            /\ \A key \in Keys \ {nxt} : heap[now.val.n][key] = None
        /\ \A a \in 1..Len(pre.heap) : ~OnPath(a) => heap[a] = pre.heap[a]
        /\ \A p \in 1..Len(pre.js) : p # last.j => js[p] = pre.js[p]

\* the root kept its other key while the array under the first step was
\* replaced by a fresh object
C6_Witness ==
    /\ last.op = "SetPath"
    /\ Len(last.branch) = 2
    /\ pre.js[last.j].k = "map"
    /\ pre.heap[pre.js[last.j].n][last.branch[1].s].k = "arr"
    /\ \E key \in Keys \ {last.branch[1].s} : heap[js[last.j].n][key] = StrV("x")
    /\ heap[js[last.j].n][last.branch[1].s].n > Len(pre.heap)

(***************************************************************************)
(* C7: an accessor called with no or one default returns what its Check*   *)
(* counterpart returns when that succeeds, otherwise the default given,    *)
(* otherwise the zero value of its type; on the struct an unresolved Get   *)
(* returned, String("fallback") is "fallback" and String() is "".  The     *)
(* wrapped value is not modified.                                          *)
(***************************************************************************)
CheckOf(op, hp, d) ==
    CASE op = "String"    -> Chk(CheckString(d).ok, StrV(CheckString(d).v))
      [] op = "Bool"      -> Chk(CheckBool(d).ok, BoolV(CheckBool(d).v))
      [] op = "Int"       -> CheckInt(d)
      [] op = "Int64"     -> CheckInt64(d)
      [] op = "Uint64"    -> CheckUint64(d)
      [] op = "Float64"   -> CheckFloat64(d)
      [] op = "Array"     -> Chk(CheckArray(d).ok, ArrV(CheckArray(d).a))
      [] op = "Map"       -> Chk(CheckMap(d).ok, MapV(CheckMap(d).m))
      [] op = "JsonArray" -> CheckJsonArray(d)
      [] op = "JsonMap"   -> CheckJsonMap(hp, d)

ZeroOf(op) ==
    CASE op = "String"    -> StrV("")
      [] op = "Bool"      -> BoolV(FALSE)
      [] op = "Int"       -> IntV(0)
      [] op = "Int64"     -> Int64V(0)
      [] op = "Uint64"    -> Uint64V(0)
      [] op = "Float64"   -> Float64V(0)
      [] op = "Array"     -> NilSlice
      [] op = "Map"       -> NilMap
      [] op = "JsonArray" -> NilJsonSlice
      [] op = "JsonMap"   -> NilJsonMap

C7_DefaultedAccessor ==
    (IsAccessor(last.op) /\ Len(last.args) <= 1) =>
        LET d == pre.js[last.j]
            c == CheckOf(last.op, pre.heap, d)
        IN /\ last.st = "ok"
           /\ last.rv = IF c.ok THEN c.v
                        ELSE IF Len(last.args) = 1 THEN last.args[1]
                        ELSE ZeroOf(last.op)
           /\ (last.op = "String" /\ IsSentinel(last.j) /\ d = Nil) =>
                 /\ last.args = <<StrV("fallback")>> => last.rv = StrV("fallback")
                 /\ last.args = <<>> => last.rv = StrV("")
           /\ Untouched

\* String("fallback") on the struct an unresolved Get returned
C7_Witness ==
    /\ last.op = "String"
    /\ IsSentinel(last.j)
    /\ pre.js[last.j] = Nil
    /\ last.args = <<StrV("fallback")>>
    /\ last.rv = StrV("fallback")

(***************************************************************************)
(* C8: an accessor called with two or more defaults panics and returns no  *)
(* value, whatever the wrapped value is, also when its type matches.       *)
(***************************************************************************)
C8_TooManyDefaultsPanics ==
    (IsAccessor(last.op) /\ Len(last.args) >= 2) =>
        /\ last.st = "panic"
        /\ last.rv = None
        /\ Untouched

\* Bool with two defaults on a struct that holds a bool
C8_Witness ==
    /\ last.op = "Bool"
    /\ Len(last.args) = 2
    /\ pre.js[last.j].k = "bool"
    /\ last.st = "panic"

(***************************************************************************)
(* C9: the not-found sentinel never aliases the document: Set, SetPath and *)
(* Del through the struct an unresolved Get returned leave the document    *)
(* (and every other struct) as it was; an unresolved Get returns a new     *)
(* struct holding Absent and touches nothing, also after an earlier        *)
(* sentinel was mutated.                                                   *)
(***************************************************************************)
FreshSentinel(jsq, hp, r) ==
    /\ r.ret = Len(jsq) + 1
    /\ Len(r.js) = Len(jsq) + 1
    /\ r.js[r.ret] = Nil
    /\ \A p \in 1..Len(jsq) : r.js[p] = jsq[p]

C9_SentinelDetached ==
    /\ (IsMutation(last.op) /\ IsSentinel(last.j)) =>
          /\ Tree(heap, js[1]) = Tree(pre.heap, pre.js[1])
          /\ \A p \in 1..Len(pre.js) : p # last.j => js[p] = pre.js[p]
          /\ \A q \in 1..Len(js), branch \in Branches :
                LET r == Get(js, heap, q, branch) IN
                (r.st = "ok" /\ ~Located(heap, js[q], branch).ok) =>
                    FreshSentinel(js, heap, r)
    /\ (/\ last.op = "Get"
        /\ last.st = "ok"
        /\ ~Located(pre.heap, pre.js[last.j], last.branch).ok) =>
          /\ FreshSentinel(pre.js, pre.heap, [ret |-> last.ret, js |-> js])
          /\ heap = pre.heap

\* SetPath through a sentinel gave it a value of its own
C9_Witness ==
    /\ last.op = "SetPath"
    /\ IsSentinel(last.j)
    /\ pre.js[last.j] = Nil
    /\ js[last.j] # Nil
    /\ Len(last.branch) > 0

(***************************************************************************)
(* C10: a struct returned by a resolved Get shares storage with the        *)
(* document only through the map it holds.                                 *)
(***************************************************************************)
\* the path the handle was got by, walked again from its parent
Again(p)     == Walk(heap, js[org[p].par], org[p].path)
AgainPre(p)  == Walk(pre.heap, pre.js[org[p].par], org[p].path)

\* before the call the path still led to the value the handle held
Current(p) == AgainPre(p).ok /\ AgainPre(p).val = pre.js[p]

\* the calls that write into the map the handle holds
WritesInPlace ==
    \/ last.op \in {"Set", "Del"}
    \/ last.op = "SetPath" /\ Len(last.branch) > 0 /\ pre.js[last.j].k = "map"

====
